---------------------------- MODULE Spec2Model ----------------------------
(***************************************************************************)
(* A model of the candidate-verification and coverage harness:             *)
(*   run_coverage_tests.py  (CoverageAnalyzer)                             *)
(*   evaluate_humaneval.py  (LLMEvaluator)                                 *)
(*   setup_test.py          (generated runner, run_test_file)              *)
(*                                                                         *)
(* Texts are sequences of tokens.  Each token stands for a fixed piece of  *)
(* text:                                                                   *)
(*   "F" = ```        "P" = python     "H" = def f():   "X" = x            *)
(*   "N" = newline    "S" = one space  "I" = four spaces "T" = tab         *)
(* Runs of spaces are written canonically (four-space groups first), so    *)
(* a line starts with four spaces exactly when its first token is "I".     *)
(***************************************************************************)
EXTENDS Integers, Sequences, FiniteSets, TLC

VARIABLES
    \* -- normalisation of one response (clean_llm_response and its callers)
    stage,      \* position of the pipeline that is being run
    raw,        \* the candidate response text as read from llm_response*.txt
    code,       \* llm_code: the text after clean_llm_response
    code2,      \* the text after a second clean_llm_response
    solution,   \* contents of solution.py (NoFile before it is written)
    \* -- assembly of an APPS solution (test_apps_problem, lines 317-366)
    apc,                \* position in the assembly
    src,                \* llm_code, as a sequence of top-level statements
    is_function_based,  \* result of _detect_function_based_solution
    main_func,          \* result of _extract_main_function_name
    solution_code,      \* what is written to solution.py
    driver_call,        \* what the generated test cases execute
    ret,                \* the value the called function returned
    printed,            \* whether _run_solution printed that value
    \* -- the generated test_solution.py run by pytest (lines 340-383)
    cand,       \* the candidate written to solution.py
    cases,      \* zip(inputs, outputs) of the test-cases file
    drv,        \* the pytest process: position, module state, streams, results
    \* -- one subprocess.run of a candidate, and the batch around it
    site,       \* the call site that started the subprocess
    proc,       \* "idle", "running", or how the last subprocess ended
    runtime,    \* ticks the candidate needs to terminate (Never: it does not)
    elapsed,    \* wall-clock ticks since the subprocess started
    outcomes,   \* what the harness recorded for the problems run so far
    \* -- coverage aggregation and classification of one run (lines 236-286,
    \*    393-439, 441-459)
    cpc,            \* position in the aggregation
    measured,       \* the statements and branches of the solution.py that ran
    coverage_data,  \* coverage.json as pytest-cov left it
    tests_passed,   \* result.returncode == 0
    metrics,        \* the values extracted from the report
    result_record,  \* the dict the test_*_problem method returns
    \* -- the batch loops (run_all_tests, evaluate_humaneval.main)
    bpc,            \* position of the batch
    loop_site,      \* which loop is running
    folders,        \* the problem folders found, in sorted order
    pos,            \* index of the folder that is processed next
    results,        \* self.results / results
    passed_count,   \* passed_count of main
    eval_summary,   \* the summary main writes
    \* -- the tests_passed status of test_humaneval_problem (lines 205-230)
    spc,            \* position of the status computation
    pytest_result,  \* returncode and stdout counts of the pytest run, and
                    \* the oracle source that was copied to original_test.py
    test_status,    \* the 'tests_passed' value of the record
    \* -- a function-convention runner script and the harness that reads its
    \*    exit status (evaluate_problem / run_tests, setup_test.py)
    rpc,            \* position of the runner process
    run_input,      \* the runner, the candidate and the oracle file
    run             \* the runner process and what the harness reports

normVars == <<stage, raw, code, code2, solution>>

asmVars == <<apc, src, is_function_based, main_func, solution_code,
             driver_call, ret, printed>>

drvVars == <<cand, cases, drv>>

exeVars == <<site, proc, runtime, elapsed, outcomes>>

covVars == <<cpc, measured, coverage_data, tests_passed, metrics,
             result_record>>

batVars == <<bpc, loop_site, folders, pos, results, passed_count,
             eval_summary>>

staVars == <<spc, pytest_result, test_status>>

runVars == <<rpc, run_input, run>>

vars == <<normVars, asmVars, drvVars, exeVars, covVars, batVars, staVars,
          runVars>>

notNorm == <<asmVars, drvVars, exeVars, covVars, batVars, staVars, runVars>>

notAsm == <<normVars, drvVars, exeVars, covVars, batVars, staVars, runVars>>

notDrv == <<normVars, asmVars, exeVars, covVars, batVars, staVars, runVars>>

notExe == <<normVars, asmVars, drvVars, covVars, batVars, staVars, runVars>>

notCov == <<normVars, asmVars, drvVars, exeVars, batVars, staVars, runVars>>

notBat == <<normVars, asmVars, drvVars, exeVars, covVars, staVars, runVars>>

notSta == <<normVars, asmVars, drvVars, exeVars, covVars, batVars, runVars>>

notRun == <<normVars, asmVars, drvVars, exeVars, covVars, batVars, staVars>>

None == "None"

NoFile == "NoFile"

\* The values of a part of the harness that is not running
IdleNorm ==
    /\ stage = "idle"
    /\ raw = <<>>
    /\ code = <<>>
    /\ code2 = <<>>
    /\ solution = NoFile

IdleAsm ==
    /\ apc = "idle"
    /\ src = <<>>
    /\ is_function_based = FALSE
    /\ main_func = None
    /\ solution_code = NoFile
    /\ driver_call = None
    /\ ret = None
    /\ printed = FALSE

IdleDrv ==
    /\ cand = None
    /\ cases = <<>>
    /\ drv = [pc |-> "idle"]

IdleExe ==
    /\ site = None
    /\ proc = "idle"
    /\ runtime = 0
    /\ elapsed = 0
    /\ outcomes = <<>>

IdleCov ==
    /\ cpc = "idle"
    /\ measured = None
    /\ coverage_data = None
    /\ tests_passed = FALSE
    /\ metrics = None
    /\ result_record = None

IdleBat ==
    /\ bpc = "idle"
    /\ loop_site = None
    /\ folders = <<>>
    /\ pos = 0
    /\ results = <<>>
    /\ passed_count = 0
    /\ eval_summary = None

IdleSta ==
    /\ spc = "idle"
    /\ pytest_result = None
    /\ test_status = None

IdleRun ==
    /\ rpc = "idle"
    /\ run_input = None
    /\ run = None

\* every part of the harness but the named one is not running
IdleBut(part) ==
    /\ IF part = "norm" THEN TRUE ELSE IdleNorm
    /\ IF part = "asm" THEN TRUE ELSE IdleAsm
    /\ IF part = "drv" THEN TRUE ELSE IdleDrv
    /\ IF part = "exe" THEN TRUE ELSE IdleExe
    /\ IF part = "cov" THEN TRUE ELSE IdleCov
    /\ IF part = "bat" THEN TRUE ELSE IdleBat
    /\ IF part = "sta" THEN TRUE ELSE IdleSta
    /\ IF part = "run" THEN TRUE ELSE IdleRun

MaxLen == 5

MaxStmts == 3

MaxOps == 3

MaxCases == 2

MaxProblems == 2

MaxClock == 32

MaxStatements == 3

MaxBranches == 2

-----------------------------------------------------------------------------
(* Text primitives (Python str methods on token sequences) *)

Alphabet == {"F", "P", "H", "X", "N", "S", "I", "T"}

Whitespace == {"N", "S", "I", "T"}

Fence == <<"F">>

PyFence == <<"F", "P">>

Indent == <<"I">>

\* A text in which every run of spaces is written with "I" groups first.
Canonical(s) ==
    /\ \A i \in 1..(Len(s) - 1) : ~(s[i] = "S" /\ s[i + 1] = "I")
    /\ \A i \in 1..(Len(s) - 3) : ~(\A k \in 0..3 : s[i + k] = "S")

Texts == { s \in UNION { [1..n -> Alphabet] : n \in 0..MaxLen } : Canonical(s) }

\* s[a..b], empty when a > b
Slice(s, a, b) == IF a > b THEN <<>> ELSE SubSeq(s, a, b)

\* pat occurs in s at position i
OccursAt(s, pat, i) ==
    /\ i >= 1
    /\ i + Len(pat) - 1 <= Len(s)
    /\ \A k \in 1..Len(pat) : s[i + k - 1] = pat[k]

\* str.find(pat, from): the first position >= from where pat occurs, 0 when
\* there is none (Python's -1; positions here count from 1)
Find(s, pat, from) ==
    LET hits == { i \in from..Len(s) : OccursAt(s, pat, i) }
    IN  IF hits = {} THEN 0 ELSE CHOOSE i \in hits : \A j \in hits : i <= j

\* pat in s
Contains(s, pat) == Find(s, pat, 1) # 0

\* str.startswith
StartsWith(s, pat) == OccursAt(s, pat, 1)

\* str.strip()
Strip(s) ==
    LET keep == { i \in 1..Len(s) : s[i] \notin Whitespace }
    IN  IF keep = {} THEN <<>>
        ELSE LET lo == CHOOSE i \in keep : \A j \in keep : i <= j
                 hi == CHOOSE i \in keep : \A j \in keep : i >= j
             IN  SubSeq(s, lo, hi)

\* str.split('\n'): always at least one line
RECURSIVE Split(_)
Split(s) ==
    LET n == Find(s, <<"N">>, 1)
    IN  IF n = 0 THEN <<s>>
        ELSE <<Slice(s, 1, n - 1)>> \o Split(Slice(s, n + 1, Len(s)))

\* '\n'.join(lines)
RECURSIVE Join(_)
Join(lines) ==
    IF Len(lines) = 0 THEN <<>>
    ELSE IF Len(lines) = 1 THEN lines[1]
    ELSE lines[1] \o <<"N">> \o Join(Tail(lines))

-----------------------------------------------------------------------------
(* CoverageAnalyzer.clean_llm_response *)

\* FenceInterior with the start offset of the untagged fence used for both
\* markers (the +3 of the generic branch in place of the +9)
FenceInteriorShortOffset(s, open) ==
    LET start == Find(s, open, 1) + Len(Fence)
        end   == Find(s, Fence, start)
    IN  IF end # 0 THEN Strip(Slice(s, start, end - 1))
        ELSE Strip(Slice(s, start, Len(s)))

\* code[start:end].strip() / code[start:].strip() for the fence that opens
\* with the marker open
FenceInterior(s, open) ==
    LET start == Find(s, open, 1) + Len(open)
        end   == Find(s, Fence, start)
    IN  IF end # 0 THEN Strip(Slice(s, start, end - 1))
        ELSE Strip(Slice(s, start, Len(s)))

\* StripFence taking the fence that comes first in the text, tagged or not
StripFenceFirstFence(s) ==
    IF Contains(s, Fence)
    THEN IF OccursAt(s, PyFence, Find(s, Fence, 1))
         THEN FenceInterior(s, PyFence)
         ELSE FenceInterior(s, Fence)
    ELSE s

\* "Remove markdown code blocks"
StripFence(s) ==
    IF Contains(s, PyFence) THEN FenceInterior(s, PyFence)
    ELSE IF Contains(s, Fence) THEN FenceInterior(s, Fence)
    ELSE s

\* lines[0].strip().startswith('def ')
IsDefHeader(line) == StartsWith(Strip(line), <<"H">>)

\* line.startswith('    ') or line.startswith('\t')
IsIndented(line) == StartsWith(line, Indent) \/ StartsWith(line, <<"T">>)

\* FixLine without the test for a line that is already indented
FixLineAlways(line) ==
    IF Strip(line) # <<>> THEN Indent \o line ELSE line

\* one body line of the "Fix indentation" loop
FixLine(line) ==
    IF Strip(line) # <<>>
    THEN IF ~IsIndented(line) THEN Indent \o Strip(line) ELSE line
    ELSE line

\* "Fix indentation"
FixIndent(s) ==
    LET lines == Split(s)
    IN  IF IsDefHeader(lines[1])
        THEN Join([i \in 1..Len(lines) |->
                      IF i = 1 THEN lines[1] ELSE FixLine(lines[i])])
        ELSE s

clean_llm_response(s) == FixIndent(StripFence(s))

-----------------------------------------------------------------------------
(* test_humaneval_problem / test_apps_problem up to the pytest run, and    *)
(* a second normalisation of the text that is already clean                *)

StartNorm ==
    /\ stage = "raw"
    /\ raw \in Texts
    /\ code = <<>>
    /\ code2 = <<>>
    /\ solution = NoFile

\* llm_code = self.clean_llm_response(f.read())
Clean ==
    /\ stage = "raw"
    /\ code' = clean_llm_response(raw)
    /\ stage' = "cleaned"
    /\ UNCHANGED <<raw, code2, solution, notNorm>>

\* clean_llm_response applied once more, to the text it returned (the
\* copies in setup_test.py and in the generated runners are the same function)
Reclean ==
    /\ stage = "cleaned"
    /\ code2' = clean_llm_response(code)
    /\ stage' = "recleaned"
    /\ UNCHANGED <<raw, code, solution, notNorm>>

\* with open(solution_file, 'w') as f: f.write(llm_code)
WriteSolution ==
    /\ stage = "cleaned"
    /\ solution' = code
    /\ stage' = "written"
    /\ UNCHANGED <<raw, code, code2, notNorm>>

\* the first line of the file that is not blank starts with whitespace:
\* `import solution` raises IndentationError (unexpected indent)
UnexpectedIndent(s) ==
    LET lines == Split(s)
    IN  \E i \in 1..Len(lines) :
           /\ Strip(lines[i]) # <<>>
           /\ \A j \in 1..(i - 1) : Strip(lines[j]) = <<>>
           /\ lines[i][1] \in Whitespace

\* subprocess.run([sys.executable, '-m', 'pytest', ...]): the generated test
\* file imports solution.py
RunPytest ==
    /\ stage = "written"
    /\ stage' = IF UnexpectedIndent(solution) THEN "indentation_error"
                ELSE "executed"
    /\ UNCHANGED <<raw, code, code2, solution, notNorm>>

\* LLMEvaluator.extract_code: what the call does with a response. The name
\* lower_llm_response is bound only inside the first branch, so the test of
\* the elif raises UnboundLocalError for every response without a tagged
\* fence. (The token alphabet has no upper-case letters: lower() changes
\* nothing.)
extract_code(llm_response) ==
    IF Contains(llm_response, PyFence)
    THEN [raised |-> FALSE, value |-> FenceInterior(llm_response, PyFence)]
    ELSE [raised |-> TRUE, value |-> <<>>]

\* llm_code = evaluator.extract_code(llm_response)
Extract ==
    /\ stage = "raw"
    /\ LET r == extract_code(raw)
       IN  /\ code' = r.value
           /\ stage' = IF r.raised THEN "extract_raised" ELSE "extracted"
    /\ UNCHANGED <<raw, code2, solution, notNorm>>

NextNorm == Clean \/ Reclean \/ WriteSolution \/ RunPytest \/ Extract

InitNorm == StartNorm /\ IdleBut("norm")

SpecNorm == InitNorm /\ [][NextNorm]_vars

-----------------------------------------------------------------------------
(* Properties of the normaliser *)

\* The text has exactly one fenced block: one opening and one closing marker.
OneFencedBlock(s) == Cardinality({ i \in 1..Len(s) : s[i] = "F" }) = 2

\* The interior of the only fenced block of s: what lies between the opening
\* marker (with its python tag, when it has one) and the closing marker.
BlockInterior(s) ==
    LET marks  == { i \in 1..Len(s) : s[i] = "F" }
        open   == CHOOSE i \in marks : \A j \in marks : i <= j
        close  == CHOOSE i \in marks : \A j \in marks : i >= j
        tagged == s[open + 1] = "P"
    IN  Slice(s, IF tagged THEN open + 2 ELSE open + 1, close - 1)

\* The closing marker of the only fenced block is directly followed by the
\* language name while the opening marker is not: the code then reads the
\* closing marker as a tagged opening fence.
CloserReadAsTaggedFence(s) ==
    LET marks == { i \in 1..Len(s) : s[i] = "F" }
        open  == CHOOSE i \in marks : \A j \in marks : i <= j
        close == CHOOSE i \in marks : \A j \in marks : i >= j
    IN  /\ close < Len(s)
        /\ s[close + 1] = "P"
        /\ s[open + 1] # "P"

\* The first line of a list of lines that is not blank, 0 when all are blank.
FirstNonBlank(lines) ==
    LET nb == { i \in 1..Len(lines) : Strip(lines[i]) # <<>> }
    IN  IF nb = {} THEN 0 ELSE CHOOSE i \in nb : \A j \in nb : i <= j

\* out is text with nothing changed but the leading whitespace of the
\* non-blank lines after the first that were not indented, which now start
\* with one indentation level.
ReindentedFrom(out, text) ==
    LET O == Split(out)
        L == Split(text)
    IN  /\ Len(O) = Len(L)
        /\ O[1] = L[1]
        /\ \A i \in 2..Len(L) :
              IF Strip(L[i]) = <<>> \/ IsIndented(L[i])
              THEN O[i] = L[i]
              ELSE O[i] = Indent \o Strip(L[i])

\* C5: normalisation is idempotent: cleaning an already cleaned text returns
\* it unchanged.
C5_Idempotent == stage = "recleaned" => code2 = code

\* C5 witness: a fenced response whose body was re-indented has been cleaned
\* a second time.
C5_Witness ==
    /\ stage = "recleaned"
    /\ Contains(raw, Fence)
    /\ code # StripFence(raw)

\* C6 as stated: for a text with exactly one fenced block, the result is
\* exactly the trimmed interior of the fence.
C6_ExactInterior ==
    (stage = "cleaned" /\ OneFencedBlock(raw)) => code = Strip(BlockInterior(raw))

\* C6 amended: for a text with exactly one fenced block whose closing marker
\* is not read as a tagged opening fence, the result is the trimmed interior
\* of the fence, except that when the first line of the trimmed interior is a
\* function header the later non-blank lines that were not indented are
\* re-indented one level; nothing else is changed.
C6_InteriorReindented ==
    (stage = "cleaned" /\ OneFencedBlock(raw) /\ ~CloserReadAsTaggedFence(raw)) =>
        LET t == Strip(BlockInterior(raw))
        IN  IF IsDefHeader(Split(t)[1])
            THEN ReindentedFrom(code, t)
            ELSE code = t

\* C6 witness: a text with one fenced block, prose before or after it, whose
\* interior is a function that was re-indented.
C6_Witness ==
    /\ stage = "cleaned"
    /\ OneFencedBlock(raw)
    /\ ~CloserReadAsTaggedFence(raw)
    /\ code # Strip(BlockInterior(raw))

\* C7 as stated: when the first non-blank line of the fence-stripped text is
\* a function header, every later non-blank line of the result is indented,
\* lines that were indented are unchanged, and blank lines keep their count
\* and position.
C7_BodyIndented ==
    stage = "cleaned" =>
        LET L == Split(StripFence(raw))
            O == Split(code)
            h == FirstNonBlank(L)
        IN  (h # 0 /\ IsDefHeader(L[h])) =>
                /\ Len(O) = Len(L)
                /\ \A i \in (h + 1)..Len(L) :
                      /\ Strip(O[i]) # <<>> => IsIndented(O[i])
                      /\ IsIndented(L[i]) => O[i] = L[i]
                      /\ Strip(L[i]) = <<>> <=> Strip(O[i]) = <<>>

\* C8 as stated: when the text left after fence stripping is empty, no
\* solution file is written and executed.
C8_EmptySourceStops == stage \in {"written", "executed"} => code # <<>>

-----------------------------------------------------------------------------
(* Candidate sources as test_apps_problem sees them                        *)
(*                                                                         *)
(* A source is a sequence of top-level statements.  Each statement has the *)
(* kinds of the statements it holds and the lines it is written on; a line *)
(* is what the scanners look at: whether it starts with whitespace, the    *)
(* keyword its stripped text starts with, and the name after 'def '.       *)

Line(ind, head, name) == [ind |-> ind, head |-> head, name |-> name]

Statements == {
    \* import os
    [kinds |-> {"import"}, defines |-> None,
     lines |-> <<Line(FALSE, "import", None)>>],
    \* import sys; main()          (two statements on one line)
    [kinds |-> {"import", "exec"}, defines |-> None,
     lines |-> <<Line(FALSE, "import", None)>>],
    \* def solve(): / body
    [kinds |-> {"def"}, defines |-> "solve",
     lines |-> <<Line(FALSE, "def", "solve"), Line(TRUE, "other", None)>>],
    \* @cache / def helper(): / body
    [kinds |-> {"def"}, defines |-> "helper",
     lines |-> <<Line(FALSE, "other", None), Line(FALSE, "def", "helper"),
                 Line(TRUE, "other", None)>>],
    \* class A: / def method(self): / body
    [kinds |-> {"class"}, defines |-> None,
     lines |-> <<Line(FALSE, "class", None), Line(TRUE, "def", "method"),
                 Line(TRUE, "other", None)>>],
    \* print(input())
    [kinds |-> {"exec"}, defines |-> None,
     lines |-> <<Line(FALSE, "other", None)>>],
    \* if __name__ == '__main__': / main()
    [kinds |-> {"exec"}, defines |-> None,
     lines |-> <<Line(FALSE, "other", None), Line(TRUE, "other", None)>>],
    \* a comment line
    [kinds |-> {}, defines |-> None,
     lines |-> <<Line(FALSE, "comment", None)>>],
    \* a blank line
    [kinds |-> {}, defines |-> None,
     lines |-> <<Line(FALSE, "blank", None)>>]
}

Sources == UNION { [1..n -> Statements] : n \in 0..MaxStmts }

\* code.strip().split('\n'), as far as the scanners can tell the lines
\* apart: the blank lines at both ends are gone
RECURSIVE AllLines(_)
AllLines(source) ==
    IF source = <<>> THEN <<>>
    ELSE source[1].lines \o AllLines(Tail(source))

StrippedLines(source) ==
    LET all == AllLines(source)
        nb  == { i \in 1..Len(all) : all[i].head # "blank" }
    IN  IF nb = {} THEN <<>>
        ELSE LET lo == CHOOSE i \in nb : \A j \in nb : i <= j
                 hi == CHOOSE i \in nb : \A j \in nb : i >= j
             IN  SubSeq(all, lo, hi)

\* a candidate that is only the body of a function: it starts with an
\* indented line and holds no definition header and no fence
BodyOnly(s) ==
    /\ s # <<>>
    /\ IsIndented(s)
    /\ \A i \in 1..Len(s) : s[i] \notin {"H", "F"}

\* C24 as stated (scenario A): a candidate that is only an indented body
\* line is completed with the header of the entry point before it is written
\* to solution.py, so that the solution file starts with a definition header
\* and the test run imports it.
C24_BodyCompletedWithHeader ==
    (stage \in {"written", "executed", "indentation_error"} /\ BodyOnly(raw)) =>
        /\ IsDefHeader(Split(solution)[1])
        /\ stage # "indentation_error"

\* the smallest element of a non-empty set of positions
Earliest(S) == CHOOSE i \in S : \A j \in S : i <= j

\* The block C25 describes: the tagged fence that comes first if there is
\* one, otherwise the first fence; from after its marker up to the next
\* marker, or to the end of the text when no marker follows; surrounding
\* whitespace trimmed. A text without a fence is left as it is.
SelectedBlock(s) ==
    LET tagged == { i \in 1..Len(s) : OccursAt(s, PyFence, i) }
        fences == { i \in 1..Len(s) : OccursAt(s, Fence, i) }
        first  == IF tagged # {} THEN Earliest(tagged) + Len(PyFence)
                  ELSE Earliest(fences) + Len(Fence)
        closers == { i \in fences : i >= first }
        last   == IF closers # {} THEN Earliest(closers) - 1 ELSE Len(s)
    IN  IF fences = {} THEN s ELSE Strip(Slice(s, first, last))

\* C25: the fence-stripping step of clean_llm_response takes the interior of
\* the fence tagged python even if an untagged fence comes earlier, otherwise
\* of the first untagged fence; without a closing fence it takes everything
\* from the opening fence to the end of the text; a text without any fence is
\* left unchanged and untrimmed. (The indentation fix is then applied to the
\* text so selected.)
C25_FenceSelection == stage = "cleaned" => code = FixIndent(SelectedBlock(raw))

\* C25 witness: a text with an untagged fence before a tagged one has been
\* cleaned to the non-empty interior of the tagged fence.
C25_Witness ==
    /\ stage = "cleaned"
    /\ Contains(raw, PyFence)
    /\ Find(raw, Fence, 1) < Find(raw, PyFence, 1)
    /\ code # <<>>

\* C29 as stated: extract_code returns for every response and never raises:
\* the trimmed interior of the selected fence when there is one, and the
\* trimmed response when there is none.
C29_ExtractAlwaysReturns ==
    stage \in {"extracted", "extract_raised"} =>
        /\ stage = "extracted"
        /\ code = IF Contains(raw, Fence) THEN SelectedBlock(raw)
                  ELSE Strip(raw)

-----------------------------------------------------------------------------
(* CoverageAnalyzer._detect_function_based_solution                        *)

\* the loop over lines: inside is in_function or in_class; the result is
\* has_execution_code
RECURSIVE ScanExecution(_, _)
ScanExecution(lines, inside) ==
    IF lines = <<>> THEN FALSE
    ELSE LET line == lines[1]
             rest == Tail(lines)
         IN  IF line.head \in {"blank", "comment"} THEN ScanExecution(rest, inside)
             ELSE IF line.head \in {"def", "class"} THEN ScanExecution(rest, TRUE)
             ELSE IF inside /\ line.ind THEN ScanExecution(rest, inside)
             ELSE IF line.head \notin {"import", "from"} THEN TRUE
             ELSE ScanExecution(rest, FALSE)

detect_function_based_solution(source) ==
    ~ScanExecution(StrippedLines(source), FALSE)

(* CoverageAnalyzer._extract_main_function_name *)

RECURSIVE FirstDefLine(_)
FirstDefLine(lines) ==
    IF lines = <<>> THEN None
    ELSE IF lines[1].head = "def" THEN lines[1].name
    ELSE FirstDefLine(Tail(lines))

extract_main_function_name(source) == FirstDefLine(StrippedLines(source))

-----------------------------------------------------------------------------
(* test_apps_problem: assembling solution.py and the test driver           *)

NoWrapper == "NoWrapper"

ReturnValues == {None, "EmptyString", "Value"}

StartAsm ==
    /\ apc = "detect"
    /\ src \in Sources
    /\ is_function_based = FALSE
    /\ main_func = None
    /\ solution_code = NoFile
    /\ driver_call = None
    /\ ret = None
    /\ printed = FALSE

\* is_function_based = self._detect_function_based_solution(llm_code)
Detect ==
    /\ apc = "detect"
    /\ is_function_based' = detect_function_based_solution(src)
    /\ apc' = "assemble"
    /\ UNCHANGED <<src, main_func, solution_code, driver_call, ret, printed,
                   notAsm>>

\* solution_code = llm_code, plus the wrapper when the candidate is
\* function-based and a function name was found; then solution.py is written
Assemble ==
    /\ apc = "assemble"
    /\ LET found == IF is_function_based
                    THEN extract_main_function_name(src) ELSE None
       IN  /\ main_func' = found
           /\ solution_code' =
                 [body |-> src,
                  wrapper |-> IF is_function_based /\ found # None
                              THEN found ELSE NoWrapper]
    /\ apc' = "generate"
    /\ UNCHANGED <<src, is_function_based, driver_call, ret, printed,
                   notAsm>>

\* the body written into every test_case_i
GenerateDriver ==
    /\ apc = "generate"
    /\ driver_call' = IF is_function_based THEN "_run_solution" ELSE "exec"
    /\ apc' = "run"
    /\ UNCHANGED <<src, is_function_based, main_func, solution_code, ret,
                   printed,
                   notAsm>>

\* _run_solution(): result = main_func(); if result is not None: print(result)
RunWrapper ==
    /\ apc = "run"
    /\ driver_call = "_run_solution"
    /\ solution_code.wrapper # NoWrapper
    /\ \E r \in ReturnValues :
          /\ ret' = r
          /\ printed' = (r # None)
    /\ apc' = "ran"
    /\ UNCHANGED <<src, is_function_based, main_func, solution_code,
                   driver_call, notAsm>>

\* exec(file.read(), solution.__dict__)
RunProgram ==
    /\ apc = "run"
    /\ driver_call = "exec"
    /\ apc' = "ran"
    /\ UNCHANGED <<src, is_function_based, main_func, solution_code,
                   driver_call, ret, printed,
                   notAsm>>

\* solution._run_solution() when no wrapper was appended: the module has no
\* such attribute and the test case ends with AttributeError
RunMissingWrapper ==
    /\ apc = "run"
    /\ driver_call = "_run_solution"
    /\ solution_code.wrapper = NoWrapper
    /\ apc' = "raised"
    /\ UNCHANGED <<src, is_function_based, main_func, solution_code,
                   driver_call, ret, printed, notAsm>>

NextAsm ==
    \/ Detect
    \/ Assemble
    \/ GenerateDriver
    \/ RunWrapper
    \/ RunProgram
    \/ RunMissingWrapper

InitAsm == StartAsm /\ IdleBut("asm")

SpecAsm == InitAsm /\ [][NextAsm]_vars

-----------------------------------------------------------------------------
(* Properties of the assembler *)

\* Every top-level statement of the source is an import or a definition.
OnlyImportsAndDefinitions(source) ==
    \A i \in 1..Len(source) : source[i].kinds \subseteq {"import", "def", "class"}

\* The first function defined at module level, None when there is none.
FirstModuleFunction(source) ==
    LET defs == { i \in 1..Len(source) : "def" \in source[i].kinds }
    IN  IF defs = {} THEN None
        ELSE source[CHOOSE i \in defs : \A j \in defs : i <= j].defines

\* C9 as stated: the detector answers True exactly when every top-level
\* statement is an import or a definition, and a source that is not
\* function-based is written to solution.py unmodified.
C9_DetectExact ==
    apc \notin {"idle", "detect"} =>
        /\ is_function_based <=> OnlyImportsAndDefinitions(src)
        /\ (apc # "assemble" /\ ~is_function_based) =>
               solution_code = [body |-> src, wrapper |-> NoWrapper]

\* C10 as stated: for a function-based candidate the assembled solution calls
\* the first function defined at module level, and the value it returns is
\* printed exactly when it is not empty.
C10_CallsFirstFunction ==
    /\ (/\ apc \in {"generate", "run", "ran"}
        /\ is_function_based
        /\ (FirstModuleFunction(src) # None \/ solution_code.wrapper # NoWrapper)) =>
           solution_code.wrapper = FirstModuleFunction(src)
    /\ (apc = "ran" /\ is_function_based) =>
           (printed <=> ret \notin {None, "EmptyString"})

\* C11 as stated: when the candidate is classified function-based and its
\* source holds no function definition, no driver that calls the wrapper is
\* generated and run.
C11_NoEntryPointSignalled ==
    (apc \in {"run", "ran", "raised"} /\ is_function_based /\ main_func = None) =>
        driver_call # "_run_solution"

-----------------------------------------------------------------------------
(* Candidates of the program convention and their execution                *)
(*                                                                         *)
(* A candidate is a sequence of statements.  In the "program" form they    *)
(* are its top-level code; in the "function" form they are the body of the *)
(* one function it defines, which _run_solution calls.  The statements:    *)
(*   "reset"  counter = 0                                                  *)
(*   "bump"   counter = globals().get('counter', 0) + 1                    *)
(*   "read"   x = int(input())                                             *)
(*   "print"  print(counter)                                               *)
(*   "echo"   print(x)                                                     *)
(* A namespace cell holds a value and the test case that wrote it.         *)

Ops == {"reset", "bump", "read", "print", "echo"}

Candidates ==
    { c \in [form : {"program", "function"},
             ops : UNION { [1..n -> Ops] : n \in 0..MaxOps }] :
        c.form = "program" => c.ops # <<>> }

Inputs == {"1", "bad"}

\* expected outputs of the test-cases file: "1\n", "2\n" and " 1\n"
Expecteds == { <<"1", "N">>, <<"2", "N">>, <<"S", "1", "N">> }

CaseLists ==
    UNION { [1..n -> [input : Inputs, expected : Expecteds]] : n \in 1..MaxCases }

\* a namespace without the names the statements use
FreshNamespace ==
    [counter |-> [set |-> FALSE, val |-> 0, at |-> 0],
     x |-> [set |-> FALSE, val |-> "", at |-> 0]]

\* a value of an earlier test case is read in test case k
Stale(cell, k) == cell.set /\ cell.at < k

\* print(v) on the current sys.stdout; pytest's own capture takes what is
\* printed while the StringIO is not in place
Write(e, text) ==
    IF e.bound THEN e.stdout \o <<text, "N">> ELSE e.stdout

\* one statement, in environment e = [ns, bound, stdin, stdout, raised,
\* leak, unbound], during test case k; bound says that sys.stdin and
\* sys.stdout are the test case's StringIO objects
ExecOp(op, e, k) ==
    LET e1 == [e EXCEPT !.unbound = e.unbound \/ ~e.bound]
    IN  CASE op = "reset" ->
               [e1 EXCEPT !.ns.counter = [set |-> TRUE, val |-> 0, at |-> k]]
          [] op = "bump" ->
               [e1 EXCEPT
                  !.ns.counter =
                      [set |-> TRUE,
                       val |-> IF e.ns.counter.set THEN e.ns.counter.val + 1
                               ELSE 1,
                       at |-> k],
                  !.leak = e.leak \/ Stale(e.ns.counter, k)]
          [] op = "read" ->
               \* pytest's stdin raises on read; StringIO at its end makes
               \* input() raise EOFError; int('bad') raises ValueError
               IF ~e.bound \/ e.stdin = <<>>
               THEN [e1 EXCEPT !.raised = TRUE]
               ELSE IF Head(e.stdin) = "bad"
               THEN [e1 EXCEPT !.raised = TRUE, !.stdin = Tail(e.stdin)]
               ELSE [e1 EXCEPT
                       !.ns.x = [set |-> TRUE, val |-> Head(e.stdin), at |-> k],
                       !.stdin = Tail(e.stdin)]
          [] op = "print" ->
               IF ~e.ns.counter.set
               THEN [e1 EXCEPT !.raised = TRUE]
               ELSE [e1 EXCEPT
                       !.stdout = Write(e, ToString(e.ns.counter.val)),
                       !.leak = e.leak \/ Stale(e.ns.counter, k)]
          [] op = "echo" ->
               IF ~e.ns.x.set
               THEN [e1 EXCEPT !.raised = TRUE]
               ELSE [e1 EXCEPT !.stdout = Write(e, e.ns.x.val),
                               !.leak = e.leak \/ Stale(e.ns.x, k)]

\* the statements in order, up to the first that raises
RECURSIVE ExecOps(_, _, _)
ExecOps(ops, e, k) ==
    IF ops = <<>> \/ e.raised THEN e
    ELSE ExecOps(Tail(ops), ExecOp(ops[1], e, k), k)

\* the statements executed when the module's code is executed: a candidate
\* of the function form only defines its function
TopLevel(c) == IF c.form = "program" THEN c.ops ELSE <<>>

\* the statements executed by the body of test_case_i (lines 360-366)
Invoked(c) == c.ops

Env(d, ns) ==
    [ns |-> ns, bound |-> d.bound, stdin |-> d.stdin, stdout |-> d.stdout,
     raised |-> FALSE, leak |-> d.leak, unbound |-> d.unbound]

-----------------------------------------------------------------------------
(* The generated test_case_i, one step per statement of its body.  d is    *)
(* the pytest process; each step leaves d alone unless d is at that step.  *)

StartDriver ==
    [pc |-> "import", idx |-> 1, loaded |-> FALSE, ns |-> FreshNamespace,
     bound |-> FALSE, stdin |-> <<>>, stdout |-> <<>>, failed |-> FALSE,
     results |-> <<>>, errors |-> <<>>, leak |-> FALSE, unbound |-> FALSE]

\* the test function is left: its outcome is recorded, the next one starts
Leave(d, n, failed, error) ==
    [d EXCEPT !.results = Append(d.results, IF failed THEN "FAILED" ELSE "PASSED"),
              !.errors = Append(d.errors, error),
              !.failed = FALSE,
              !.idx = d.idx + 1,
              !.pc = IF d.idx < n THEN "import" ELSE "done"]

\* import solution: the module's code runs only when sys.modules does not
\* hold the module; a module whose code raises is not kept
StepImport(d, c, cs) ==
    IF d.pc # "import" THEN d
    ELSE IF d.loaded THEN [d EXCEPT !.pc = "reload"]
    ELSE LET e == ExecOps(TopLevel(c), Env(d, FreshNamespace), d.idx)
             d1 == [d EXCEPT !.leak = e.leak, !.unbound = e.unbound]
         IN  IF e.raised
             THEN Leave([d1 EXCEPT !.ns = FreshNamespace], Len(cs), TRUE, TRUE)
             ELSE [d1 EXCEPT !.ns = e.ns, !.loaded = TRUE, !.pc = "reload"]

\* importlib.reload(solution): the module's code runs again in the module's
\* own dictionary, which keeps every name the code does not rebind
StepReload(d, c, cs) ==
    IF d.pc # "reload" THEN d
    ELSE LET e == ExecOps(TopLevel(c), Env(d, d.ns), d.idx)
             d1 == [d EXCEPT !.ns = e.ns, !.leak = e.leak, !.unbound = e.unbound]
         IN  IF e.raised THEN Leave(d1, Len(cs), TRUE, TRUE)
             ELSE [d1 EXCEPT !.pc = "bind"]

\* sys.stdin = StringIO(input_data); sys.stdout = StringIO()
StepBind(d, c, cs) ==
    IF d.pc # "bind" THEN d
    ELSE [d EXCEPT !.bound = TRUE, !.stdin = <<cs[d.idx].input>>,
                   !.stdout = <<>>, !.pc = "run"]

\* solution._run_solution(), or exec(file.read(), solution.__dict__)
StepRun(d, c, cs) ==
    IF d.pc # "run" THEN d
    ELSE LET e == ExecOps(Invoked(c), Env(d, d.ns), d.idx)
             d1 == [d EXCEPT !.ns = e.ns, !.stdin = e.stdin, !.stdout = e.stdout,
                             !.leak = e.leak, !.unbound = e.unbound]
         IN  IF e.raised THEN [d1 EXCEPT !.failed = TRUE, !.pc = "raised"]
             ELSE [d1 EXCEPT !.pc = "compare"]

\* assert output.strip() == expected   (expected = expected_output.strip())
StepCompare(d, c, cs) ==
    IF d.pc # "compare" THEN d
    ELSE [d EXCEPT !.failed = (Strip(d.stdout) # Strip(cs[d.idx].expected)),
                   !.pc = "restore"]

\* finally: sys.stdin = old_stdin; sys.stdout = old_stdout
StepRestore(d, c, cs) ==
    IF d.pc \notin {"restore", "raised"} THEN d
    ELSE Leave([d EXCEPT !.bound = FALSE, !.stdin = <<>>, !.stdout = <<>>],
               Len(cs), d.failed, d.pc = "raised")

\* one whole test function
RunCase(d, c, cs) ==
    StepRestore(StepCompare(StepRun(StepBind(StepReload(StepImport(d, c, cs),
        c, cs), c, cs), c, cs), c, cs), c, cs)

\* the whole pytest session
RECURSIVE RunSession(_, _, _)
RunSession(d, c, cs) ==
    IF d.pc = "done" THEN d ELSE RunSession(RunCase(d, c, cs), c, cs)

StartDrv ==
    /\ cand \in Candidates
    /\ cases \in CaseLists
    /\ drv = StartDriver

ImportSolution ==
    /\ drv.pc = "import"
    /\ drv' = StepImport(drv, cand, cases)
    /\ UNCHANGED <<cand, cases, notDrv>>

ReloadSolution ==
    /\ drv.pc = "reload"
    /\ drv' = StepReload(drv, cand, cases)
    /\ UNCHANGED <<cand, cases, notDrv>>

BindStreams ==
    /\ drv.pc = "bind"
    /\ drv' = StepBind(drv, cand, cases)
    /\ UNCHANGED <<cand, cases, notDrv>>

RunCandidate ==
    /\ drv.pc = "run"
    /\ drv' = StepRun(drv, cand, cases)
    /\ UNCHANGED <<cand, cases, notDrv>>

CompareOutput ==
    /\ drv.pc = "compare"
    /\ drv' = StepCompare(drv, cand, cases)
    /\ UNCHANGED <<cand, cases, notDrv>>

RestoreStreams ==
    /\ drv.pc \in {"restore", "raised"}
    /\ drv' = StepRestore(drv, cand, cases)
    /\ UNCHANGED <<cand, cases, notDrv>>

NextDrv ==
    \/ ImportSolution
    \/ ReloadSolution
    \/ BindStreams
    \/ RunCandidate
    \/ CompareOutput
    \/ RestoreStreams

InitDrv == StartDrv /\ IdleBut("drv")

SpecDrv == InitDrv /\ [][NextDrv]_vars

-----------------------------------------------------------------------------
(* Properties of the test driver *)

\* C1 as stated: no value written to the module namespace during one test
\* case is read in a later test case.
C1_NoLeakBetweenCases == drv.pc # "idle" => ~drv.leak

\* C4 as stated: no statement of the candidate is executed while sys.stdin
\* and sys.stdout are still the harness's own.
C4_RunsOnlyBound == drv.pc # "idle" => ~drv.unbound

\* The session that the same candidate gives when test case i gets input a.
SessionWith(i, a) ==
    RunSession(StartDriver, cand, [cases EXCEPT ![i].input = a])

\* C3 as stated: when the candidate raised in test case i, every test case
\* still has an outcome, and the outcomes of the other test cases are those
\* of the session in which test case i does not raise.
C3_ErrorStaysInItsCase ==
    drv.pc = "done" =>
        \A i \in 1..Len(cases) :
            drv.errors[i] =>
                /\ Len(drv.results) = Len(cases)
                /\ \A a \in Inputs :
                      LET other == SessionWith(i, a)
                      IN  ~other.errors[i] =>
                              \A j \in 1..Len(cases) :
                                  j # i => other.results[j] = drv.results[j]

\* The text without its trailing whitespace.
RStrip(s) ==
    LET keep == { i \in 1..Len(s) : s[i] \notin Whitespace }
    IN  IF keep = {} THEN <<>>
        ELSE SubSeq(s, 1, CHOOSE i \in keep : \A j \in keep : i >= j)

\* C12 as stated: a test case whose candidate ran to its end passes exactly
\* when the captured output and the expected output are equal after removing
\* only their trailing whitespace.
C12_TrailingWhitespaceOnly ==
    drv.pc = "restore" =>
        (~drv.failed <=> RStrip(drv.stdout) = RStrip(cases[drv.idx].expected))

-----------------------------------------------------------------------------
(* Running a candidate in a subprocess: the four subprocess.run calls      *)

\* timeout=30 of LLMEvaluator.run_tests and of setup_test.run_test_file
TIMEOUT == 30

\* the runtime of a candidate that does not terminate (while True: pass)
Never == 0 - 1

Sites == {"LLMEvaluator.run_tests", "setup_test.run_test_file",
          "test_humaneval_problem", "test_apps_problem"}

\* the calls that pass timeout= to subprocess.run
HasTimeout(s) == s \in {"LLMEvaluator.run_tests", "setup_test.run_test_file"}

Runtimes == (0..MaxClock) \cup {Never}

StartExe ==
    /\ site \in Sites
    /\ proc = "idle"
    /\ runtime = 0
    /\ elapsed = 0
    /\ outcomes = <<>>

\* result = subprocess.run([...]) for the next problem of the batch
StartSubprocess ==
    /\ proc = "idle"
    /\ Len(outcomes) < MaxProblems
    /\ \E r \in Runtimes : runtime' = r
    /\ elapsed' = 0
    /\ proc' = "running"
    /\ UNCHANGED <<site, outcomes, notExe>>

\* one unit of wall-clock time passes while subprocess.run waits
Tick ==
    /\ proc = "running"
    /\ elapsed < MaxClock
    /\ runtime = Never \/ elapsed < runtime
    /\ HasTimeout(site) => elapsed < TIMEOUT
    /\ elapsed' = elapsed + 1
    /\ UNCHANGED <<site, proc, runtime, outcomes, notExe>>

\* the child exits; the harness reads result.returncode
Exit ==
    /\ proc = "running"
    /\ runtime # Never
    /\ elapsed = runtime
    /\ \E r \in {"passed", "failed"} :
          outcomes' = Append(outcomes, [result |-> r, ran |-> elapsed])
    /\ proc' = "idle"
    /\ UNCHANGED <<site, runtime, elapsed, notExe>>

\* subprocess.run kills the child and raises TimeoutExpired; the except
\* branch returns "Test execution timed out"
Expire ==
    /\ proc = "running"
    /\ HasTimeout(site)
    /\ elapsed = TIMEOUT
    /\ outcomes' = Append(outcomes, [result |-> "Timeout", ran |-> elapsed])
    /\ proc' = "idle"
    /\ UNCHANGED <<site, runtime, elapsed, notExe>>

NextExe == StartSubprocess \/ Tick \/ Exit \/ Expire

InitExe == StartExe /\ IdleBut("exe")

SpecExe == InitExe /\ [][NextExe]_vars

-----------------------------------------------------------------------------
(* Properties of the executor *)

\* C2 as stated: every candidate execution the harness starts is bounded by
\* the timeout: no subprocess is still running after TIMEOUT units, and no
\* recorded run lasted longer.
C2_BoundedByTimeout ==
    /\ proc = "running" => elapsed <= TIMEOUT
    /\ \A i \in 1..Len(outcomes) : outcomes[i].ran <= TIMEOUT

-----------------------------------------------------------------------------
(* Percentages.  A percentage is kept exactly, as the pair of counters it   *)
(* is the ratio of: [n, d] stands for n / d * 100.  d = 0 stands for the    *)
(* marker 'N/A' that the records carry in place of a number.                *)

Of(n, d) == [n |-> n, d |-> d]

\* the literal 100
Hundred == Of(1, 1)

\* the literal 0
ZeroPct == Of(0, 1)

\* 'N/A'
NotApplicable == Of(0, 0)

IsNumber(a) == a.d > 0

\* a == b
PctEq(a, b) == a.n * b.d = b.n * a.d

\* a == k, a >= k, a < k for a literal k
PctIs(a, k) == 100 * a.n = k * a.d

PctAtLeast(a, k) == 100 * a.n >= k * a.d

PctBelow(a, k) == 100 * a.n < k * a.d

\* round(a, 1): the nearest tenth, ties to the even tenth
Round1(a) ==
    LET q == (1000 * a.n) \div a.d
        r == (1000 * a.n) % a.d
        t == IF 2 * r < a.d THEN q
             ELSE IF 2 * r > a.d THEN q + 1
             ELSE IF q % 2 = 0 THEN q ELSE q + 1
    IN  Of(t, 1000)

-----------------------------------------------------------------------------
(* CoverageAnalyzer.interpret_coverage *)

FailedIncomplete == "Tests failed - coverage may be incomplete"

PerfectCoverage == "Perfect coverage - all code paths tested"

HighLineLowBranch ==
    "High line coverage but low branch coverage - missing edge cases"

Excellent == "Excellent coverage"

GoodLineLowBranch ==
    "Good line coverage but poor branch coverage - untested conditionals"

Good == "Good coverage with room for improvement"

Moderate == "Moderate coverage - significant untested code paths"

Low == "Low coverage - many code paths untested"

NotGenerated == "Coverage data not generated"

\* IsPerfect without the alternative num_branches == 0
IsPerfectBranchOnly(line_cov, branch_cov, num_branches) ==
    PctIs(line_cov, 100) /\ PctIs(branch_cov, 100)

\* line_cov == 100 and (branch_cov == 100 or num_branches == 0)
IsPerfect(line_cov, branch_cov, num_branches) ==
    PctIs(line_cov, 100) /\ (PctIs(branch_cov, 100) \/ num_branches = 0)

\* the rules after the tests_passed test; branch_cov is a number at every
\* call, so isinstance(branch_cov, (int, float)) is true
CoverageLabel(line_cov, branch_cov, num_branches) ==
    IF IsPerfect(line_cov, branch_cov, num_branches) THEN PerfectCoverage
    ELSE IF PctAtLeast(line_cov, 90)
         THEN IF IsNumber(branch_cov) /\ PctBelow(branch_cov, 80)
              THEN HighLineLowBranch ELSE Excellent
    ELSE IF PctAtLeast(line_cov, 70)
         THEN IF IsNumber(branch_cov) /\ PctBelow(branch_cov, 60)
              THEN GoodLineLowBranch ELSE Good
    ELSE IF PctAtLeast(line_cov, 50) THEN Moderate
    ELSE Low

\* interpret_coverage without the tests_passed test
InterpretIgnoringTests(line_cov, branch_cov, num_branches, passed) ==
    CoverageLabel(line_cov, branch_cov, num_branches)

interpret_coverage(line_cov, branch_cov, num_branches, passed) ==
    IF ~passed THEN FailedIncomplete
    ELSE CoverageLabel(line_cov, branch_cov, num_branches)

-----------------------------------------------------------------------------
(* The solution.py that pytest --cov=solution measures, and the report      *)

\* the statements of the appended wrapper: def _run_solution, result = ...,
\* if result is not None, print(result)
WrapperStatements == 4

\* the two exits of the wrapper's if
WrapperBranches == 2

\* counters of a piece of code: statements, executed statements, branches,
\* executed branches
Counters(st, cl, br, cb) ==
    [statements |-> st, covered |-> cl, branches |-> br,
     covered_branches |-> cb]

\* the candidate's own code
OwnCounters ==
    { Counters(st, cl, br, cb) :
        st \in 0..MaxStatements, cl \in 0..MaxStatements,
        br \in 0..MaxBranches, cb \in 0..MaxBranches }

\* what a session can execute of the wrapper: only its def, the call that
\* raised, the call that returned None, the call that printed, or both
WrapperCounters ==
    { Counters(WrapperStatements, c[1], WrapperBranches, c[2]) :
        c \in { <<1, 0>>, <<2, 0>>, <<3, 1>>, <<4, 1>>, <<4, 2>> } }

NoCounters == Counters(0, 0, 0, 0)

\* solution.py = llm_code, plus the wrapper when one was appended (a
\* function-based candidate defines a function: it has a statement); a
\* branch belongs to a statement, an executed branch to an executed one
Measurements ==
    { m \in [own : OwnCounters, wrapper : WrapperCounters \cup {NoCounters}] :
        /\ m.own.covered <= m.own.statements
        /\ m.own.covered_branches <= m.own.branches
        /\ m.own.branches > 0 => m.own.statements >= 1
        /\ m.own.covered_branches > 0 => m.own.covered >= 1
        /\ m.wrapper # NoCounters => m.own.statements >= 1 }

\* summary.percent_covered as coverage.py writes it under --cov-branch:
\* executed statements and branches over all statements and branches, and
\* 100 for a file without statements
PercentCovered(m) ==
    IF m.own.statements + m.wrapper.statements = 0 THEN Hundred
    ELSE Of(m.own.covered + m.wrapper.covered
              + m.own.covered_branches + m.wrapper.covered_branches,
            m.own.statements + m.wrapper.statements
              + m.own.branches + m.wrapper.branches)

\* files['solution.py']['summary'] of coverage.json
Summary(m) ==
    [percent_covered |-> PercentCovered(m),
     num_statements |-> m.own.statements + m.wrapper.statements,
     covered_lines |-> m.own.covered + m.wrapper.covered,
     missing_lines |-> (m.own.statements + m.wrapper.statements)
                         - (m.own.covered + m.wrapper.covered),
     num_branches |-> m.own.branches + m.wrapper.branches,
     covered_branches |-> m.own.covered_branches + m.wrapper.covered_branches]

\* the defaults of the .get(...) chain
NoSummary ==
    [percent_covered |-> ZeroPct, num_statements |-> 0, covered_lines |-> 0,
     missing_lines |-> 0, num_branches |-> 0, covered_branches |-> 0]

\* (covered_branches / num_branches * 100) if num_branches > 0 else 100,
\* with the test left out
BranchCoverageDivides(covered_branches, num_branches) ==
    Of(covered_branches, num_branches)

\* (covered_branches / num_branches * 100) if num_branches > 0 else 100
BranchCoverage(covered_branches, num_branches) ==
    IF num_branches > 0 THEN Of(covered_branches, num_branches) ELSE Hundred

-----------------------------------------------------------------------------
(* test_humaneval_problem / test_apps_problem after the pytest run          *)

StartCov ==
    /\ cpc = "pytest"
    /\ measured \in Measurements
    /\ coverage_data = None
    /\ tests_passed = FALSE
    /\ metrics = None
    /\ result_record = None

\* result = subprocess.run([... 'pytest', '--cov=solution', ...]): pytest
\* ends; coverage.json is there unless the process ended before the report
\* was written, and holds an entry for solution.py unless the file was never
\* measured
RunCoverage ==
    /\ cpc = "pytest"
    /\ \E done \in BOOLEAN, entry \in BOOLEAN, ok \in BOOLEAN :
          /\ ~done => (~entry /\ ~ok)
          /\ coverage_data' =
                [exists |-> done, has_solution |-> entry,
                 summary |-> IF entry THEN Summary(measured) ELSE NoSummary]
          /\ tests_passed' = ok
    /\ cpc' = "report"
    /\ UNCHANGED <<measured, metrics, result_record, notCov>>

\* if os.path.exists(coverage_file): the metrics are read from the report
ParseCoverage ==
    /\ cpc = "report"
    /\ coverage_data.exists
    /\ LET summary == coverage_data.summary
       IN  metrics' =
             [line_coverage |-> summary.percent_covered,
              num_statements |-> summary.num_statements,
              covered_lines |-> summary.covered_lines,
              missing_lines |-> summary.missing_lines,
              num_branches |-> summary.num_branches,
              covered_branches |-> summary.covered_branches,
              branch_coverage |-> BranchCoverage(summary.covered_branches,
                                                 summary.num_branches)]
    /\ cpc' = "parsed"
    /\ UNCHANGED <<measured, coverage_data, tests_passed, result_record,
                   notCov>>

\* interpretation = self.interpret_coverage(...); return {...}
ReturnRecord ==
    /\ cpc = "parsed"
    /\ result_record' =
          [line_coverage |-> Round1(metrics.line_coverage),
           branch_coverage |-> IF metrics.num_branches > 0
                               THEN Round1(metrics.branch_coverage)
                               ELSE NotApplicable,
           num_statements |-> metrics.num_statements,
           covered_lines |-> metrics.covered_lines,
           missing_lines |-> metrics.missing_lines,
           num_branches |-> metrics.num_branches,
           covered_branches |-> metrics.covered_branches,
           interpretation |->
               interpret_coverage(metrics.line_coverage,
                                  metrics.branch_coverage,
                                  metrics.num_branches, tests_passed)]
    /\ cpc' = "recorded"
    /\ UNCHANGED <<measured, coverage_data, tests_passed, metrics, notCov>>

\* else: the record of a run without coverage.json
ReturnNotGenerated ==
    /\ cpc = "report"
    /\ ~coverage_data.exists
    /\ result_record' =
          [line_coverage |-> ZeroPct,
           branch_coverage |-> NotApplicable,
           interpretation |-> NotGenerated]
    /\ cpc' = "recorded"
    /\ UNCHANGED <<measured, coverage_data, tests_passed, metrics, notCov>>

NextCov == RunCoverage \/ ParseCoverage \/ ReturnRecord \/ ReturnNotGenerated

InitCov == StartCov /\ IdleBut("cov")

SpecCov == InitCov /\ [][NextCov]_vars

-----------------------------------------------------------------------------
(* Properties of the coverage aggregation *)

\* The report was read: the metrics are those of this run.
Aggregated == cpc \in {"parsed", "recorded"} /\ coverage_data.exists

\* C13 as stated: the line coverage of a run is covered_lines /
\* num_statements * 100 of that run's counters, 0 when num_statements is 0,
\* and lies in [0, 100].
C13_LineCoverageFromCounters ==
    Aggregated =>
        /\ PctEq(metrics.line_coverage,
                 IF metrics.num_statements = 0 THEN ZeroPct
                 ELSE Of(metrics.covered_lines, metrics.num_statements))
        /\ PctAtLeast(metrics.line_coverage, 0)
        /\ metrics.line_coverage.n <= metrics.line_coverage.d

\* C14: the branch coverage is covered_branches / num_branches * 100 when
\* num_branches > 0; when num_branches is 0 nothing is divided, the classifier
\* is handed 100 whatever covered_branches is, and the record carries 'N/A'.
C14_BranchCoverageOrFull ==
    Aggregated =>
        /\ IsNumber(metrics.branch_coverage)
        /\ IF metrics.num_branches > 0
           THEN PctEq(metrics.branch_coverage,
                      Of(metrics.covered_branches, metrics.num_branches))
           ELSE PctIs(metrics.branch_coverage, 100)
        /\ cpc = "recorded" =>
              IF metrics.num_branches > 0
              THEN result_record.branch_coverage =
                       Round1(Of(metrics.covered_branches, metrics.num_branches))
              ELSE /\ result_record.branch_coverage = NotApplicable
                   /\ result_record.interpretation =
                          interpret_coverage(metrics.line_coverage, Hundred, 0,
                                             tests_passed)

\* C14 witness: a run whose solution.py has statements and no branch has
\* been recorded with 'N/A'.
C14_Witness ==
    /\ cpc = "recorded"
    /\ coverage_data.exists
    /\ coverage_data.has_solution
    /\ metrics.num_statements > 0
    /\ metrics.num_branches = 0
    /\ result_record.branch_coverage = NotApplicable

\* C15 as stated: the counters of a run are those of the candidate's own
\* source: nothing of the generated wrapper or driver is counted.
C15_OnlyCandidateCounted ==
    (Aggregated /\ coverage_data.has_solution) =>
        /\ metrics.num_statements = measured.own.statements
        /\ metrics.covered_lines = measured.own.covered
        /\ metrics.num_branches = measured.own.branches
        /\ metrics.covered_branches = measured.own.covered_branches

\* C16 as stated: a run without coverage.json, or without an entry for
\* solution.py in it, is never recorded with a line coverage of 0.
C16_AbsentNotZero ==
    (/\ cpc = "recorded"
     /\ ~(coverage_data.exists /\ coverage_data.has_solution)) =>
        ~(IsNumber(result_record.line_coverage)
            /\ PctIs(result_record.line_coverage, 0))

\* The closed set of verdict labels of the decision table.
Verdicts ==
    {FailedIncomplete, PerfectCoverage, HighLineLowBranch, Excellent,
     GoodLineLowBranch, Good, Moderate, Low}

\* C20 as stated: every record carries exactly one label of the closed set,
\* Moderate for a line coverage in [50, 70) and Low for one below 50 when the
\* tests passed.
C20_VerdictInClosedSet ==
    cpc = "recorded" =>
        /\ result_record.interpretation \in Verdicts
        /\ (coverage_data.exists /\ tests_passed) =>
              /\ (PctAtLeast(metrics.line_coverage, 50)
                    /\ PctBelow(metrics.line_coverage, 70)) =>
                     result_record.interpretation = Moderate
              /\ PctBelow(metrics.line_coverage, 50) =>
                     result_record.interpretation = Low

-----------------------------------------------------------------------------
(* interpret_coverage on every input: line and branch coverage in whole     *)
(* percents, any branch count, tests passed or not                          *)

Percents == { Of(k, 100) : k \in 0..100 }

StartCls ==
    /\ cpc = "classify"
    /\ measured = None
    /\ coverage_data = None
    /\ tests_passed \in BOOLEAN
    /\ metrics \in [line_coverage : Percents, branch_coverage : Percents,
                    num_branches : 0..MaxBranches]
    /\ result_record = None

\* interpretation = self.interpret_coverage(line_coverage, branch_coverage,
\*                                          num_branches, tests_passed)
Classify ==
    /\ cpc = "classify"
    /\ result_record' =
          [interpretation |->
              interpret_coverage(metrics.line_coverage, metrics.branch_coverage,
                                 metrics.num_branches, tests_passed)]
    /\ cpc' = "classified"
    /\ UNCHANGED <<measured, coverage_data, tests_passed, metrics, notCov>>

NextCls == Classify

InitCls == StartCls /\ IdleBut("cov")

SpecCls == InitCls /\ [][NextCls]_vars

-----------------------------------------------------------------------------
(* Properties of the classifier *)

\* C17: when the tests did not all pass the verdict is FailedIncomplete,
\* whatever the line coverage, the branch coverage and the branch count are.
C17_FailedTakesPrecedence ==
    (cpc = "classified" /\ ~tests_passed) =>
        result_record.interpretation = FailedIncomplete

\* C17 witness: failed tests with full line and branch coverage have been
\* classified.
C17_Witness ==
    /\ cpc = "classified"
    /\ ~tests_passed
    /\ PctIs(metrics.line_coverage, 100)
    /\ PctIs(metrics.branch_coverage, 100)

\* C18: with tests passed the verdict is PerfectCoverage exactly when the
\* line coverage is 100 and the branch coverage is the full value (100) or
\* there are no branches.
C18_PerfectExactly ==
    (cpc = "classified" /\ tests_passed) =>
        (result_record.interpretation = PerfectCoverage
            <=> /\ PctIs(metrics.line_coverage, 100)
                /\ \/ PctIs(metrics.branch_coverage, 100)
                   \/ metrics.num_branches = 0)

\* C18 witness: PerfectCoverage has been given to a source without branches
\* whose branch coverage value is not 100.
C18_Witness ==
    /\ cpc = "classified"
    /\ tests_passed
    /\ metrics.num_branches = 0
    /\ PctBelow(metrics.branch_coverage, 100)
    /\ result_record.interpretation = PerfectCoverage

\* C19 as stated: with tests passed and rule 2 not matching, a line coverage
\* of at least 90 gives HighLineLowBranch exactly when there are branches and
\* the branch coverage is below 80, and Excellent otherwise; a line coverage
\* in [70, 90) gives GoodLineLowBranch exactly when there are branches and
\* the branch coverage is below 60, and Good otherwise.
C19_LowBranchNeedsBranches ==
    (/\ cpc = "classified"
     /\ tests_passed
     /\ ~(/\ PctIs(metrics.line_coverage, 100)
          /\ \/ PctIs(metrics.branch_coverage, 100)
             \/ metrics.num_branches = 0)) =>
        /\ PctAtLeast(metrics.line_coverage, 90) =>
              result_record.interpretation =
                  IF metrics.num_branches > 0
                       /\ PctBelow(metrics.branch_coverage, 80)
                  THEN HighLineLowBranch ELSE Excellent
        /\ (PctAtLeast(metrics.line_coverage, 70)
              /\ PctBelow(metrics.line_coverage, 90)) =>
              result_record.interpretation =
                  IF metrics.num_branches > 0
                       /\ PctBelow(metrics.branch_coverage, 60)
                  THEN GoodLineLowBranch ELSE Good

-----------------------------------------------------------------------------
(* The batch loops: CoverageAnalyzer.run_all_tests (one of its four loops   *)
(* over sorted(os.listdir(...))) and evaluate_humaneval.main                *)

\* A problem folder as the loop finds it: the dataset it belongs to, whether
\* its files are there and parse (json.load), the lengths of the 'inputs'
\* and 'outputs' lists of an APPS test-cases file, and whether the candidate
\* passes the tests that are run.
Folders ==
    { f \in [dataset : {"humaneval", "apps"},
             files : {"present", "missing", "malformed"},
             n_inputs : 0..MaxCases, n_outputs : 0..MaxCases,
             passes : BOOLEAN] :
        f.dataset = "humaneval" => (f.n_inputs = 0 /\ f.n_outputs = 0) }

\* the test functions written for a folder: one per pair of
\* zip(inputs, outputs), which stops at the shorter list, or test_solution
\* for a HumanEval problem
Generated(f) ==
    IF f.dataset = "apps"
    THEN IF f.n_inputs <= f.n_outputs THEN f.n_inputs ELSE f.n_outputs
    ELSE 1

\* the dict test_humaneval_problem / test_apps_problem returns for a folder
\* whose files are there: 'tests_passed' is f'{passed_tests}/{total_tests}'
\* with total_tests = len(inputs) for an APPS problem; pytest exits with 0
\* only if a test ran and none failed
ProblemRecord(i, f) ==
    LET executed == Generated(f)
        passed_tests == IF f.passes THEN executed ELSE 0
    IN  [folder |-> i,
         executed |-> executed,
         ratio |-> IF f.dataset = "apps" THEN <<passed_tests, f.n_inputs>>
                   ELSE <<passed_tests, executed>>,
         passed |-> f.passes /\ executed > 0]

\* the dict evaluate_problem returns
Evaluation(i, f) ==
    [folder |-> i, executed |-> 1,
     ratio |-> <<IF f.passes THEN 1 ELSE 0, 1>>,
     passed |-> f.passes]

StartBat ==
    /\ bpc = "loop"
    /\ loop_site \in {"run_all_tests", "main"}
    /\ folders \in UNION { [1..n -> Folders] : n \in 0..MaxProblems }
    /\ loop_site = "main" =>
          \A i \in 1..Len(folders) : folders[i].dataset = "humaneval"
    /\ pos = 1
    /\ results = <<>>
    /\ passed_count = 0
    /\ eval_summary = None

\* result = self.test_*_problem(item_path, ...); if result: append
TestProblem ==
    /\ bpc = "loop"
    /\ loop_site = "run_all_tests"
    /\ pos <= Len(folders)
    /\ folders[pos].files # "malformed"
    /\ results' = IF folders[pos].files = "missing" THEN results
                  ELSE Append(results, ProblemRecord(pos, folders[pos]))
    /\ pos' = pos + 1
    /\ UNCHANGED <<bpc, loop_site, folders, passed_count, eval_summary,
                   notBat>>

\* json.load raises inside test_*_problem: nothing in run_all_tests or in
\* main catches it
TestProblemRaises ==
    /\ bpc = "loop"
    /\ loop_site = "run_all_tests"
    /\ pos <= Len(folders)
    /\ folders[pos].files = "malformed"
    /\ bpc' = "crashed"
    /\ UNCHANGED <<loop_site, folders, pos, results, passed_count,
                   eval_summary, notBat>>

\* analyzer.generate_report() after run_all_tests returned
GenerateReport ==
    /\ bpc = "loop"
    /\ loop_site = "run_all_tests"
    /\ pos > Len(folders)
    /\ bpc' = "reported"
    /\ UNCHANGED <<loop_site, folders, pos, results, passed_count,
                   eval_summary, notBat>>

\* try: result = evaluate_problem(...); if result: append, count
EvaluateProblem ==
    /\ bpc = "loop"
    /\ loop_site = "main"
    /\ pos <= Len(folders)
    /\ folders[pos].files # "malformed"
    /\ IF folders[pos].files = "missing"
       THEN UNCHANGED <<results, passed_count>>
       ELSE /\ results' = Append(results, Evaluation(pos, folders[pos]))
            /\ passed_count' = IF folders[pos].passes THEN passed_count + 1
                               ELSE passed_count
    /\ pos' = pos + 1
    /\ UNCHANGED <<bpc, loop_site, folders, eval_summary, notBat>>

\* except Exception as e: print(...)
EvaluateProblemRaises ==
    /\ bpc = "loop"
    /\ loop_site = "main"
    /\ pos <= Len(folders)
    /\ folders[pos].files = "malformed"
    /\ pos' = pos + 1
    /\ UNCHANGED <<bpc, loop_site, folders, results, passed_count,
                   eval_summary, notBat>>

\* summary = {...}; pass_rate is kept as the pair (passed, total)
CreateSummary ==
    /\ bpc = "loop"
    /\ loop_site = "main"
    /\ pos > Len(folders)
    /\ eval_summary' =
          [total_problems |-> Len(results),
           passed |-> passed_count,
           failed |-> Len(results) - passed_count,
           pass_rate |-> IF results # <<>> THEN <<passed_count, Len(results)>>
                         ELSE <<0, 1>>]
    /\ bpc' = "reported"
    /\ UNCHANGED <<loop_site, folders, pos, results, passed_count, notBat>>

NextBat ==
    \/ TestProblem
    \/ TestProblemRaises
    \/ GenerateReport
    \/ EvaluateProblem
    \/ EvaluateProblemRaises
    \/ CreateSummary

InitBat == StartBat /\ IdleBut("bat")

SpecBat == InitBat /\ [][NextBat]_vars

-----------------------------------------------------------------------------
(* Properties of the batch loops *)

\* C21 as stated: no failure while a problem is processed ends the batch:
\* the batch never stops before report generation.
C21_BatchSurvivesFailures == bpc # "crashed"

\* C22 as stated: when the batch is done the results hold one record for
\* every problem folder that was attempted.
C22_RecordPerFolder ==
    bpc = "reported" =>
        /\ Len(results) = Len(folders)
        /\ \A i \in 1..Len(results) : results[i].folder = i

\* C23 as stated: for a test-cases file whose inputs and outputs differ in
\* length no test case is executed and no pass ratio is reported.
C23_MismatchedFixtureStops ==
    \A i \in 1..Len(results) :
        LET f == folders[results[i].folder]
        IN  (f.dataset = "apps" /\ f.n_inputs # f.n_outputs) =>
                /\ results[i].executed = 0
                /\ results[i].ratio = <<>>

\* C30 as stated: the summary of main has passed + failed = total_problems =
\* len(results), a pass rate in [0, 1] that is 0 without results, passed =
\* the number of results whose passed flag is true, and counts every problem
\* folder found in total_problems.
C30_SummaryCounts ==
    (loop_site = "main" /\ bpc = "reported") =>
        /\ eval_summary.passed + eval_summary.failed = eval_summary.total_problems
        /\ eval_summary.total_problems = Len(results)
        /\ 0 <= eval_summary.pass_rate[1]
        /\ eval_summary.pass_rate[1] <= eval_summary.pass_rate[2]
        /\ results = <<>> => eval_summary.pass_rate[1] = 0
        /\ eval_summary.passed =
              Cardinality({ i \in 1..Len(results) : results[i].passed })
        /\ eval_summary.total_problems = Len(folders)

-----------------------------------------------------------------------------
(* test_humaneval_problem: the test status computed from the pytest run    *)

MaxOracleLines == 3

\* The lines of an oracle source (original_test.py), by what they hold:
\*   "assert"        assert candidate(...) == ...
\*   "assert_msg"    assert True, "This prints if this assert fails 1 ..."
\*   "assert_paren"  assert(candidate(...) == ...)
\*   "comment"       # assert that ...
\*   "other"         a line without the word
\* and how often the substring 'assert ' occurs in such a line
Occurrences(line) ==
    CASE line = "assert" -> 1
      [] line = "assert_msg" -> 2
      [] line = "assert_paren" -> 0
      [] line = "comment" -> 1
      [] OTHER -> 0

\* test_content.count('assert ')
RECURSIVE CountAssert(_)
CountAssert(test_content) ==
    IF test_content = <<>> THEN 0
    ELSE Occurrences(Head(test_content)) + CountAssert(Tail(test_content))

\* a value of test_status: a label, or the ratio f'{passed}/{total}'
Status(label, passed, total) ==
    [label |-> label, passed |-> passed, total |-> total]

\* the oracle's check function holds a statement (a def without a body does
\* not compile); pytest counts inside the output are those of the custom
\* test functions, one line ' PASSED' or ' FAILED' each
StartSta ==
    /\ spc = "pytest"
    /\ pytest_result \in
          [custom : BOOLEAN, returncode_zero : BOOLEAN,
           passed_tests : 0..MaxCases, failed_tests : 0..MaxCases,
           test_content :
               UNION { [1..n -> {"assert", "assert_msg", "assert_paren",
                                 "comment", "other"}] :
                         n \in 1..MaxOracleLines }]
    /\ ~pytest_result.custom =>
          /\ pytest_result.passed_tests + pytest_result.failed_tests <= 1
          /\ pytest_result.returncode_zero <=> pytest_result.passed_tests = 1
    /\ pytest_result.custom =>
          /\ pytest_result.test_content = <<"other">>
          /\ pytest_result.returncode_zero <=>
                (pytest_result.failed_tests = 0
                   /\ pytest_result.passed_tests > 0)
    /\ test_status = None

\* lines 205-230: test_status from the counts, the exit status and the copy
\* of the oracle source (original_test.py was written at line 166: it exists)
ComputeStatus ==
    /\ spc = "pytest"
    /\ LET total_tests ==
               pytest_result.passed_tests + pytest_result.failed_tests
           assertion_count == CountAssert(pytest_result.test_content)
       IN  test_status' =
             IF pytest_result.custom
             THEN IF total_tests > 0
                  THEN Status("ratio", pytest_result.passed_tests, total_tests)
                  ELSE Status("Error", 0, 0)
             ELSE IF pytest_result.returncode_zero
                  THEN Status("All Pass", 0, 0)
                  ELSE IF assertion_count > 0
                       THEN Status("ratio", 0, assertion_count)
                       ELSE Status("Fail", 0, 0)
    /\ spc' = "status"
    /\ UNCHANGED <<pytest_result, notSta>>

NextSta == ComputeStatus

InitSta == StartSta /\ IdleBut("sta")

SpecSta == InitSta /\ [][NextSta]_vars

-----------------------------------------------------------------------------
(* Properties of the test status *)

\* the assert statements of an oracle source
Assertions(test_content) ==
    Cardinality({ i \in 1..Len(test_content) :
                    test_content[i] \in {"assert", "assert_msg", "assert_paren"} })

\* C26 as stated: with the original oracle the status is 'All Pass' exactly
\* when the oracle run succeeded; after a failing run it is '0/N' with N the
\* number of assertions in the oracle source when N > 0, and 'Fail' when the
\* source holds no assertion.
C26_AssertionsReported ==
    (spc = "status" /\ ~pytest_result.custom) =>
        LET n == Assertions(pytest_result.test_content)
        IN  /\ test_status.label = "All Pass" <=> pytest_result.returncode_zero
            /\ ~pytest_result.returncode_zero =>
                  test_status = IF n > 0 THEN Status("ratio", 0, n)
                                ELSE Status("Fail", 0, 0)

-----------------------------------------------------------------------------
(* A function-convention run: the generated runner (run_test.py written by  *)
(* evaluate_problem, or the run_tests template of setup_test.py) started as *)
(* a subprocess, and the report made from its exit status                   *)

\* run_input.candidate, by what the candidate's text does when executed:
\*   "defines"        defines the entry point; the oracle's assertions hold
\*   "wrong"          defines the entry point; an assertion fails
\*   "no_function"    does not define the entry point
\*   "raises"         its top-level code raises an exception
\*   "exit0", "exit1" its top-level code calls sys.exit(0) / sys.exit(1)
\*   "exit0_in_call"  defines the entry point, which calls sys.exit(0)
\* run_input.oracle: test.py defines check, does not define it, or raises.
StartRun ==
    /\ rpc = "candidate"
    /\ run_input \in
          [runner : {"run_test.py", "run_tests"},
           candidate : {"defines", "wrong", "no_function", "raises",
                        "exit0", "exit1", "exit0_in_call"},
           oracle : {"check", "no_check", "raises"}]
    /\ run = [check_invoked |-> FALSE, check_returned |-> FALSE,
              returncode |-> Never, passed |-> FALSE]

\* the runner process ends with the status rc
ExitWith(rc) ==
    /\ run' = [run EXCEPT !.returncode = rc]
    /\ rpc' = "exited"

\* exec(open("llm_response.txt").read()) / exec(llm_code, namespace): an
\* exception ends run_test.py with a traceback and status 1, and makes
\* run_tests return False (sys.exit(1)); SystemExit is not an Exception, it
\* passes `except Exception` and ends either process with its own status
ExecCandidate ==
    /\ rpc = "candidate"
    /\ CASE run_input.candidate = "raises" -> ExitWith(1)
         [] run_input.candidate = "exit0" -> ExitWith(0)
         [] run_input.candidate = "exit1" -> ExitWith(1)
         [] OTHER -> rpc' = "oracle" /\ UNCHANGED run
    /\ UNCHANGED <<run_input, notRun>>

\* exec(open("test.py").read()) / exec(test_code, namespace)
ExecOracle ==
    /\ rpc = "oracle"
    /\ IF run_input.oracle = "raises" THEN ExitWith(1)
       ELSE rpc' = "check" /\ UNCHANGED run
    /\ UNCHANGED <<run_input, notRun>>

\* check({entry_point}) / namespace['check'](namespace[entry_point]): a
\* missing name ends the run with status 1 before the call; a failed
\* assertion ends it with status 1; sys.exit(0) inside the candidate ends it
\* with status 0 before check returns; otherwise check returns, the runner
\* prints and ends with status 0
CallCheck ==
    /\ rpc = "check"
    /\ IF run_input.oracle = "no_check" \/ run_input.candidate = "no_function"
       THEN ExitWith(1)
       ELSE /\ run' = [run EXCEPT
                         !.check_invoked = TRUE,
                         !.check_returned = (run_input.candidate = "defines"),
                         !.returncode =
                             IF run_input.candidate = "wrong" THEN 1 ELSE 0]
            /\ rpc' = "exited"
    /\ UNCHANGED <<run_input, notRun>>

\* "success": result.returncode == 0 and "passed": test_results.get("success",
\* False); run_test_file returns result.returncode == 0
ReportRun ==
    /\ rpc = "exited"
    /\ run' = [run EXCEPT !.passed = (run.returncode = 0)]
    /\ rpc' = "reported"
    /\ UNCHANGED <<run_input, notRun>>

NextRun == ExecCandidate \/ ExecOracle \/ CallCheck \/ ReportRun

InitRun == StartRun /\ IdleBut("run")

SpecRun == InitRun /\ [][NextRun]_vars

-----------------------------------------------------------------------------
(* Properties of a function-convention run *)

\* C27 as stated: a run is reported as passed only if the oracle's check was
\* invoked on the candidate's entry point and returned without raising.
C27_PassedOnlyAfterCheck ==
    (rpc = "reported" /\ run.passed) =>
        (run.check_invoked /\ run.check_returned)

-----------------------------------------------------------------------------
(* The record of a longer candidate: the coverage values are rounded for    *)
(* the record after the verdict was computed from the raw values            *)

MaxSourceStatements == 203

\* a report was written for a candidate of up to MaxSourceStatements
\* statements without a wrapper
StartRnd ==
    /\ cpc = "report"
    /\ measured \in
          { m \in [own : { Counters(st, cl, br, cb) :
                             st \in 1..MaxSourceStatements,
                             cl \in 0..MaxSourceStatements,
                             br \in 0..MaxBranches, cb \in 0..MaxBranches },
                   wrapper : {NoCounters}] :
              /\ m.own.covered <= m.own.statements
              /\ m.own.covered_branches <= m.own.branches
              /\ m.own.covered_branches > 0 => m.own.covered >= 1 }
    /\ coverage_data = [exists |-> TRUE, has_solution |-> TRUE,
                        summary |-> Summary(measured)]
    /\ tests_passed \in BOOLEAN
    /\ metrics = None
    /\ result_record = None

NextRnd == ParseCoverage \/ ReturnRecord

InitRnd == StartRnd /\ IdleBut("cov")

SpecRnd == InitRnd /\ [][NextRnd]_vars

-----------------------------------------------------------------------------
(* Properties of the stored record *)

\* C28 as stated: the verdict of a record is the one the decision table
\* gives for the values stored in the same record: the line and branch
\* coverage rounded to one decimal (the full value for a source without
\* branches), the branch count and the pass status.
C28_VerdictMatchesRecord ==
    (cpc = "recorded" /\ coverage_data.exists) =>
        result_record.interpretation =
            interpret_coverage(result_record.line_coverage,
                               IF result_record.num_branches > 0
                               THEN result_record.branch_coverage
                               ELSE Hundred,
                               result_record.num_branches, tests_passed)

=============================================================================
